---- MODULE Spec2Model ----
(***************************************************************************)
(* Static Huffman coding (huffman_tool.py): the HuffmanCoding object, its  *)
(* tree builder, code table generator, bit-level encode/decode, the byte   *)
(* packer, and the compress_file/decompress_file drivers.                  *)
(*                                                                         *)
(* Representation.  A Python str is a sequence of one-character strings,   *)
(* so a symbol (a character in char mode, a word in word mode) is a        *)
(* non-empty sequence of characters and a bitstring is a sequence of "0"   *)
(* and "1".  A dict is the sequence of its <<key, value>> items in         *)
(* insertion order, as Python keeps it.  bytes is a sequence of integers   *)
(* 0..255.  A call that may raise gives Ok(value) or Raised(name).          *)
(***************************************************************************)
EXTENDS Integers, Sequences, FiniteSets, TLC

\* ------------------------------------------------------------------- state
\* The names of the code are kept for the operators' parameters; the state variables
\* carry a prefix: hc_ for the fields of the HuffmanCoding instance, v_ for the
\* driver's local names.
VARIABLES
    pc,                \* where the driver stands
    hc_codes,          \* hc.codes
    hc_reverse_codes,  \* hc.reverse_codes
    hc_root,           \* hc.root
    hc_calls,          \* encode calls made on hc so far
    v_text, v_mode,    \* text, mode: the driver's input
    v_encoded,         \* encoded: the bitstring encode / unpack_bits returned
    v_freq_table,      \* freq_table: the table encode / json.load returned
    v_decoded,         \* decoded: what decode returned
    v_raised,          \* the exception that ended the last call, "" when none
    v_heap,            \* heap: build_huffman_tree's list
    v_bitstring,       \* bitstring: pack_bits' argument
    v_packed_bytes,    \* packed_bytes: pack_bits' bytes / the bytes read after byte 0
    v_padding,         \* padding: pack_bits' padding count / byte 0 read
    v_unpacked,        \* what unpack_bits returned
    huff_file,         \* the content of the .huff file
    freq_json_file     \* the content of the .huff.freq.json file

\* ------------------------------------------------------------------ bounds
MaxLen == 3          \* longest text given to encode
MaxSyms == 4         \* most distinct symbols of a frequency table (tree runs)
MaxFreq == 3         \* largest count of a frequency table (tree runs)
MaxBits == 9         \* longest bitstring given to pack_bits
MaxPadding == 9      \* largest padding count given to unpack_bits
MaxCalls == 2        \* most encode calls made on one HuffmanCoding instance

\* ------------------------------------------------------------- Python values
\* None, for Node.left / Node.right / HuffmanCoding.root.
None == [none |-> TRUE]
\* None for Node.char: no symbol is the empty string, so <<>> is free.
NoChar == <<>>

\* What a call that may raise gives: the value returned, or the exception's name.
Ok(value) == [raised |-> "", value |-> value]
Raised(name) == [raised |-> name, value |-> <<>>]
IsRaised(r) == r.raised # ""

\* {}
EmptyDict == <<>>
ItemKeys(d) == {d[i][1] : i \in 1..Len(d)}
ItemIndex(d, k) == CHOOSE i \in 1..Len(d) : d[i][1] = k
ItemGet(d, k) == d[ItemIndex(d, k)][2]
\* d[k] = v on an insertion-ordered dict: a new key goes last, an old one keeps its place.
ItemPut(d, k, v) ==
    IF k \in ItemKeys(d)
    THEN SubSeq(d, 1, ItemIndex(d, k) - 1) \o << <<k, v>> >>
            \o SubSeq(d, ItemIndex(d, k) + 1, Len(d))
    ELSE Append(d, <<k, v>>)

\* s[:-n] for n > 0, as Python slices: the first max(len(s) - n, 0) items.
DropLast(s, n) == SubSeq(s, 1, IF Len(s) - n > 0 THEN Len(s) - n ELSE 0)

\* -------------------------------------------------------------------- Node
Node(char, freq, left, right) ==
    [char |-> char, freq |-> freq, left |-> left, right |-> right]

\* Mutant: the comparison reversed, which makes the heap a max-heap.
NodeGt(self, other) == self.freq > other.freq

NodeLt(self, other) == self.freq < other.freq

\* ------------------------------------------------------------------- heapq
\* The list is 0-based in the code; At/Set translate positions.
At(heap, pos) == heap[pos + 1]
Set(heap, pos, item) ==
    SubSeq(heap, 1, pos) \o <<item>> \o SubSeq(heap, pos + 2, Len(heap))

RECURSIVE siftdown_loop(_, _, _, _)
siftdown_loop(heap, startpos, pos, newitem) ==
    IF pos > startpos
    THEN LET parentpos == (pos - 1) \div 2
             parent == At(heap, parentpos)
         IN  IF NodeLt(newitem, parent)
             THEN siftdown_loop(Set(heap, pos, parent), startpos, parentpos, newitem)
             ELSE Set(heap, pos, newitem)
    ELSE Set(heap, pos, newitem)

siftdown(heap, startpos, pos) ==
    siftdown_loop(heap, startpos, pos, At(heap, pos))

RECURSIVE siftup_loop(_, _, _)
siftup_loop(heap, pos, childpos) ==
    IF childpos < Len(heap)
    THEN LET rightpos == childpos + 1
             c == IF rightpos < Len(heap)
                     /\ ~NodeLt(At(heap, childpos), At(heap, rightpos))
                  THEN rightpos ELSE childpos
         IN  siftup_loop(Set(heap, pos, At(heap, c)), c, 2 * c + 1)
    ELSE [heap |-> heap, pos |-> pos]

siftup(heap, pos) ==
    LET newitem == At(heap, pos)
        r == siftup_loop(heap, pos, 2 * pos + 1)
    IN  siftdown(Set(r.heap, r.pos, newitem), pos, r.pos)

RECURSIVE heapify_loop(_, _)
heapify_loop(x, i) ==
    IF i < 0 THEN x ELSE heapify_loop(siftup(x, i), i - 1)

heapify(x) == heapify_loop(x, (Len(x) \div 2) - 1)

\* heappop: the popped item and the list left.
heappop(heap) ==
    LET lastelt == heap[Len(heap)]
        rest == SubSeq(heap, 1, Len(heap) - 1)
    IN  IF rest # <<>>
        THEN [item |-> rest[1], heap |-> siftup(Set(rest, 0, lastelt), 0)]
        ELSE [item |-> lastelt, heap |-> rest]

heappush(heap, item) == siftdown(Append(heap, item), 0, Len(heap))

\* ------------------------------------------------------ build_frequency_table

RECURSIVE build_frequency_table_loop(_, _, _)
build_frequency_table_loop(tokens, i, freq) ==
    IF i > Len(tokens) THEN freq
    ELSE LET token == tokens[i]
             old == IF token \in ItemKeys(freq) THEN ItemGet(freq, token) ELSE 0
         IN  build_frequency_table_loop(tokens, i + 1, ItemPut(freq, token, old + 1))

build_frequency_table(tokens) == build_frequency_table_loop(tokens, 1, <<>>)

\* --------------------------------------------------------- build_huffman_tree
\* heap = [Node(char=char, freq=freq) for char, freq in freq_table.items()]
RECURSIVE leaves_loop(_, _, _)
leaves_loop(freq_table, i, heap) ==
    IF i > Len(freq_table) THEN heap
    ELSE leaves_loop(freq_table, i + 1,
                     Append(heap, Node(freq_table[i][1], freq_table[i][2], None, None)))

leaves(freq_table) == leaves_loop(freq_table, 1, <<>>)

\* One pass of the while loop: pop left, pop right, push their parent.
merge(heap) ==
    LET l == heappop(heap)
        r == heappop(l.heap)
        parent == Node(NoChar, l.item.freq + r.item.freq, l.item, r.item)
    IN  heappush(r.heap, parent)

RECURSIVE merge_loop(_)
merge_loop(heap) == IF Len(heap) > 1 THEN merge_loop(merge(heap)) ELSE heap

\* return heap[0]: IndexError on an empty list.
heap_top(heap) == IF Len(heap) = 0 THEN Raised("IndexError") ELSE Ok(heap[1])

build_huffman_tree(freq_table) == heap_top(merge_loop(heapify(leaves(freq_table))))

\* -------------------------------------------------------------- generate_codes
\* Mutant: the right child is given "0" as well, prefix + "0" for both children.
RECURSIVE generate_codes_same_bit(_, _, _)
generate_codes_same_bit(self, node, prefix) ==
    IF node = None THEN self
    ELSE IF node.char # NoChar
    THEN LET code == IF prefix # <<>> THEN prefix ELSE <<"0">>
         IN  [codes |-> ItemPut(self.codes, node.char, code),
              reverse_codes |-> ItemPut(self.reverse_codes, code, node.char)]
    ELSE generate_codes_same_bit(
             generate_codes_same_bit(self, node.left, Append(prefix, "0")),
             node.right, Append(prefix, "0"))

\* self is [codes, reverse_codes]: the two dicts the method writes into.
RECURSIVE generate_codes(_, _, _)
generate_codes(self, node, prefix) ==
    IF node = None THEN self
    ELSE IF node.char # NoChar
    THEN LET code == IF prefix # <<>> THEN prefix ELSE <<"0">>
         IN  [codes |-> ItemPut(self.codes, node.char, code),
              reverse_codes |-> ItemPut(self.reverse_codes, code, node.char)]
    ELSE generate_codes(generate_codes(self, node.left, Append(prefix, "0")),
                        node.right, Append(prefix, "1"))


\* ------------------------------------------------------------------ tokenize
Whitespace == {" "}

\* text.split(): the maximal runs of non-whitespace characters, in order.
RECURSIVE split_loop(_, _, _, _)
split_loop(text, i, word, tokens) ==
    IF i > Len(text)
    THEN IF word # <<>> THEN Append(tokens, word) ELSE tokens
    ELSE IF text[i] \in Whitespace
    THEN split_loop(text, i + 1, <<>>, IF word # <<>> THEN Append(tokens, word) ELSE tokens)
    ELSE split_loop(text, i + 1, Append(word, text[i]), tokens)

split(text) == split_loop(text, 1, <<>>, <<>>)

\* list(text): one one-character string per character.
RECURSIVE list(_)
list(text) == IF text = <<>> THEN <<>> ELSE << <<text[1]>> >> \o list(Tail(text))

tokenize(text, mode) == IF mode = "word" THEN split(text) ELSE list(text)

\* sep.join(parts)
RECURSIVE join(_, _)
join(sep, parts) ==
    IF parts = <<>> THEN <<>>
    ELSE IF Len(parts) = 1 THEN parts[1]
    ELSE parts[1] \o sep \o join(sep, Tail(parts))

\* ---------------------------------------------------------------------- encode
\* [self.codes[t] for t in tokens]
RECURSIVE lookup(_, _)
lookup(codes, tokens) ==
    IF tokens = <<>> THEN <<>>
    ELSE <<ItemGet(codes, tokens[1])>> \o lookup(codes, Tail(tokens))

\* self is [codes, reverse_codes, root].  The result is <<encoded, freq_table>> or an
\* exception.  The report written to code_output_path and the statistics computed
\* for it change nothing the method returns or keeps, and are left out.
encode(self, text, mode) ==
    IF text = <<>> THEN [self |-> self, result |-> Ok(<< <<>>, <<>> >>)]
    ELSE LET tokens == tokenize(text, mode)
             freq_table == build_frequency_table(tokens)
             built == build_huffman_tree(freq_table)
         IN  IF IsRaised(built) THEN [self |-> self, result |-> Raised(built.raised)]
             ELSE LET tree == built.value
                      gen == generate_codes([codes |-> self.codes,
                                             reverse_codes |-> self.reverse_codes],
                                            tree, <<>>)
                      encoded == join(<<>>, lookup(gen.codes, tokens))
                  IN  [self |-> [codes |-> gen.codes,
                                 reverse_codes |-> gen.reverse_codes,
                                 root |-> tree],
                       result |-> Ok(<<encoded, freq_table>>)]

\* ---------------------------------------------------------------------- decode
RECURSIVE decode_loop(_, _, _, _, _)
decode_loop(tree, encoded_text, i, node, decoded) ==
    IF i > Len(encoded_text) THEN decoded
    ELSE IF node = None THEN decode_loop(tree, encoded_text, i + 1, tree, decoded)
    ELSE LET next == IF encoded_text[i] = "0" THEN node.left ELSE node.right
         IN  IF next # None /\ next.char # NoChar
             THEN decode_loop(tree, encoded_text, i + 1, tree, Append(decoded, next.char))
             ELSE decode_loop(tree, encoded_text, i + 1, next, decoded)

decode(self, encoded_text, freq_table, mode) ==
    IF encoded_text = <<>> \/ freq_table = <<>> THEN [self |-> self, result |-> <<>>]
    ELSE LET tree == build_huffman_tree(freq_table).value
             gen == generate_codes([codes |-> self.codes,
                                    reverse_codes |-> self.reverse_codes], tree, <<>>)
             decoded == decode_loop(tree, encoded_text, 1, tree, <<>>)
         IN  [self |-> [codes |-> gen.codes,
                        reverse_codes |-> gen.reverse_codes,
                        root |-> tree],
              result |-> IF mode = "word" THEN join(<<" ">>, decoded)
                         ELSE join(<<>>, decoded)]

\* ------------------------------------------------------- pack_bits, unpack_bits
\* '0' * n
RECURSIVE Zeros(_)
Zeros(n) == IF n <= 0 THEN <<>> ELSE <<"0">> \o Zeros(n - 1)

\* int(bitstring, 2): ValueError on the empty string.
RECURSIVE int_loop(_, _, _)
int_loop(bitstring, i, acc) ==
    IF i > Len(bitstring) THEN acc
    ELSE int_loop(bitstring, i + 1, 2 * acc + (IF bitstring[i] = "1" THEN 1 ELSE 0))

int(bitstring) ==
    IF bitstring = <<>> THEN Raised("ValueError") ELSE Ok(int_loop(bitstring, 1, 0))

\* value.to_bytes(length, byteorder='big'): OverflowError when it does not fit.
RECURSIVE to_bytes_loop(_, _)
to_bytes_loop(value, length) ==
    IF length = 0 THEN <<>>
    ELSE Append(to_bytes_loop(value \div 256, length - 1), value % 256)

to_bytes(value, length) ==
    IF value >= 256 ^ length THEN Raised("OverflowError")
    ELSE Ok(to_bytes_loop(value, length))

\* <<bytes, padding>> or an exception.
pack_bits(bitstring) ==
    LET padding == 8 - (Len(bitstring) % 8)
        padded == IF padding # 8 THEN bitstring \o Zeros(padding) ELSE bitstring
        value == int(padded)
    IN  IF IsRaised(value) THEN Raised(value.raised)
        ELSE LET bytes == to_bytes(value.value, Len(padded) \div 8)
             IN  IF IsRaised(bytes) THEN Raised(bytes.raised)
                 ELSE Ok(<<bytes.value, padding>>)

\* f"{byte:08b}"
RECURSIVE format_b(_, _)
format_b(value, width) ==
    IF width = 0 THEN <<>>
    ELSE Append(format_b(value \div 2, width - 1), IF value % 2 = 1 THEN "1" ELSE "0")

format08b(byte) == format_b(byte, 8)

\* [f"{byte:08b}" for byte in byte_data]
RECURSIVE format_all(_)
format_all(byte_data) ==
    IF byte_data = <<>> THEN <<>>
    ELSE <<format08b(byte_data[1])>> \o format_all(Tail(byte_data))

unpack_bits(byte_data, padding) ==
    LET bitstring == join(<<>>, format_all(byte_data))
    IN  IF padding # 0 THEN DropLast(bitstring, padding) ELSE bitstring

\* ------------------------------------------------- frequency table persistence
\* Rank of a character in the order Python compares strings by (code point).
CharOrder == <<" ", "a", "b", "c", "d", "e", "f", "g">>
Ord(c) == CHOOSE i \in 1..Len(CharOrder) : CharOrder[i] = c

RECURSIVE StrLt(_, _)
StrLt(s, t) ==
    IF t = <<>> THEN FALSE
    ELSE IF s = <<>> THEN TRUE
    ELSE IF Ord(s[1]) # Ord(t[1]) THEN Ord(s[1]) < Ord(t[1])
    ELSE StrLt(Tail(s), Tail(t))

RECURSIVE SortedItems(_)
SortedItems(d) ==
    IF d = <<>> THEN <<>>
    ELSE LET m == CHOOSE i \in 1..Len(d) : \A j \in 1..Len(d) : ~StrLt(d[j][1], d[i][1])
         IN  <<d[m]>> \o SortedItems(SubSeq(d, 1, m - 1) \o SubSeq(d, m + 1, Len(d)))

RECURSIVE json_members(_)
json_members(d) ==
    IF d = <<>> THEN <<>> ELSE <<d[1][1], d[1][2]>> \o json_members(Tail(d))

\* Mutant: json.dump(freq_table, f, indent=2, sort_keys=True).
json_dump_sort_keys(obj) == json_members(SortedItems(obj))

\* json.dump(freq_table, f, indent=2): the members "key": count in the dict's order.
\* The document is the sequence key, count, key, count, ...
json_dump(obj) == json_members(obj)

\* json.load(f): the members in document order; a repeated key keeps its first place
\* and takes its last value.
RECURSIVE json_load_loop(_, _, _)
json_load_loop(doc, i, d) ==
    IF i > Len(doc) THEN d
    ELSE json_load_loop(doc, i + 2, ItemPut(d, doc[i], doc[i + 1]))

json_load(doc) == json_load_loop(doc, 1, <<>>)

\* ------------------------------------------------------------- HuffmanCoding()
HuffmanCoding == [codes |-> EmptyDict, reverse_codes |-> EmptyDict, root |-> None]

\* ------------------------------------------------------------------ inputs
RECURSIVE SeqsOfLen(_, _)
SeqsOfLen(S, n) ==
    IF n = 0 THEN {<<>>}
    ELSE {Append(s, c) : s \in SeqsOfLen(S, n - 1), c \in S}

SeqsUpTo(S, n) == UNION {SeqsOfLen(S, k) : k \in 0..n}

Chars == {"a", "b", "c", " "}
Texts == SeqsUpTo(Chars, MaxLen)
Modes == {"char", "word"}
Bitstrings == SeqsUpTo({"0", "1"}, MaxBits)

\* Frequency tables: at most MaxSyms distinct one-character symbols, in any order,
\* each with a count in 1..MaxFreq; the empty table is one of them.
Symbols == {<<CharOrder[i + 1]>> : i \in 1..MaxSyms}
RECURSIVE TablesOfLen(_)
TablesOfLen(n) ==
    IF n = 0 THEN {<<>>}
    ELSE {Append(u[1], <<u[2], u[3]>>) :
              u \in {w \in TablesOfLen(n - 1) \X Symbols \X (1..MaxFreq) :
                         w[2] \notin ItemKeys(w[1])}}

\* ------------------------------------------------------------- the instance
hc == [codes |-> hc_codes, reverse_codes |-> hc_reverse_codes, root |-> hc_root]
hcvars == <<hc_codes, hc_reverse_codes, hc_root>>
iovars == <<v_text, v_mode, v_encoded, v_freq_table, v_decoded>>
packvars == <<v_bitstring, v_packed_bytes, v_padding, v_unpacked>>
filevars == <<huff_file, freq_json_file>>
vars == <<pc, hcvars, hc_calls, iovars, v_raised, v_heap, packvars, filevars>>

Blank ==
    /\ hc_codes = EmptyDict /\ hc_reverse_codes = EmptyDict /\ hc_root = None
    /\ hc_calls = 0
    /\ v_text = <<>> /\ v_mode = "char"
    /\ v_encoded = <<>> /\ v_freq_table = <<>> /\ v_decoded = <<>>
    /\ v_raised = ""
    /\ v_heap = <<>>
    /\ v_bitstring = <<>> /\ v_packed_bytes = <<>> /\ v_padding = 0 /\ v_unpacked = <<>>
    /\ huff_file = <<>> /\ freq_json_file = <<>>

SetHc(self) ==
    /\ hc_codes' = self.codes
    /\ hc_reverse_codes' = self.reverse_codes
    /\ hc_root' = self.root

\* ----------------------------------------------- the test driver (test_cases.py)
Init == pc = "start" /\ Blank

\* hc = HuffmanCoding(): one pass of the loop begins; the pass's names are unset.
NewInstance ==
    /\ pc \in {"start", "decoded", "raised"}
    /\ pc' = "new"
    /\ SetHc(HuffmanCoding)
    /\ hc_calls' = 0
    /\ v_text' = <<>> /\ v_mode' = "char"
    /\ v_encoded' = <<>> /\ v_freq_table' = <<>> /\ v_decoded' = <<>>
    /\ v_raised' = ""
    /\ UNCHANGED <<v_heap, packvars, filevars>>

\* encoded, freq_table = hc.encode(text, mode=mode); an exception ends the pass.
DoEncode(t, m) ==
    \E e \in {encode(hc, t, m)} :
        /\ v_text' = t /\ v_mode' = m
        /\ SetHc(e.self)
        /\ hc_calls' = hc_calls + 1
        /\ v_decoded' = <<>>
        /\ v_raised' = e.result.raised
        /\ IF IsRaised(e.result)
           THEN /\ pc' = "raised"
                /\ v_encoded' = <<>> /\ v_freq_table' = <<>>
           ELSE /\ pc' = "encoded"
                /\ v_encoded' = e.result.value[1] /\ v_freq_table' = e.result.value[2]
        /\ UNCHANGED <<v_heap, packvars, filevars>>

Encode == \E t \in Texts, m \in Modes : pc = "new" /\ DoEncode(t, m)

\* decoded = hc.decode(encoded, freq_table, mode=mode)
Decode ==
    /\ pc = "encoded"
    /\ \E d \in {decode(hc, v_encoded, v_freq_table, v_mode)} :
           /\ SetHc(d.self)
           /\ v_decoded' = d.result
    /\ pc' = "decoded"
    /\ UNCHANGED <<hc_calls, v_text, v_mode, v_encoded, v_freq_table, v_raised,
                   v_heap, packvars, filevars>>

\* ------------------------------------------------ the command line (__main__)
\* compress_file(file_path, mode): t is what the file holds.  An exception ends the
\* run before either output file is opened.
compress_file ==
    \E t \in Texts, m \in Modes :
        /\ pc = "start"
        /\ v_text' = t /\ v_mode' = m
        /\ hc_calls' = 1
        /\ v_decoded' = <<>>
        /\ \E e \in {encode(HuffmanCoding, t, m)} :
           \E packed \in {IF IsRaised(e.result) THEN Raised(e.result.raised)
                          ELSE pack_bits(e.result.value[1])} :
               /\ SetHc(e.self)
               /\ v_raised' = packed.raised
               /\ IF IsRaised(e.result)
                  THEN v_encoded' = <<>> /\ v_freq_table' = <<>>
                  ELSE v_encoded' = e.result.value[1] /\ v_freq_table' = e.result.value[2]
               /\ IF IsRaised(packed)
                  THEN /\ pc' = "failed"
                       /\ v_packed_bytes' = <<>> /\ v_padding' = 0
                       /\ UNCHANGED filevars
                  ELSE /\ pc' = "compressed"
                       /\ v_packed_bytes' = packed.value[1] /\ v_padding' = packed.value[2]
                       /\ huff_file' = <<packed.value[2]>> \o packed.value[1]
                       /\ freq_json_file' = json_dump(e.result.value[2])
        /\ UNCHANGED <<v_heap, v_bitstring, v_unpacked>>

\* decompress_file(file_path, mode), a later run on the two files compress_file
\* wrote: padding = f.read(1)[0], packed_data = f.read(), freq_table = json.load(f).
decompress_file ==
    /\ pc = "compressed"
    /\ \E padding \in {huff_file[1]}, packed_data \in {Tail(huff_file)},
          freq_table \in {json_load(freq_json_file)} :
       \E encoded \in {unpack_bits(packed_data, padding)} :
       \E d \in {decode(HuffmanCoding, encoded, freq_table, v_mode)} :
           /\ SetHc(d.self)
           /\ v_padding' = padding
           /\ v_packed_bytes' = packed_data
           /\ v_freq_table' = freq_table
           /\ v_encoded' = encoded
           /\ v_decoded' = d.result
    /\ pc' = "decompressed"
    /\ UNCHANGED <<hc_calls, v_text, v_mode, v_raised, v_heap, v_bitstring, v_unpacked,
                   filevars>>

Next == NewInstance \/ Encode \/ Decode \/ compress_file \/ decompress_file

Spec == Init /\ [][Next]_vars

\* ------------------------------------------- one instance, called again and again
EncodeAgain ==
    \E t \in Texts, m \in Modes :
        /\ pc \in {"encoded", "decoded", "raised"}
        /\ hc_calls < MaxCalls
        /\ DoEncode(t, m)

NextReuse == NewInstance \/ Encode \/ EncodeAgain \/ Decode

SpecReuse == Init /\ [][NextReuse]_vars

\* ---------------------------------- build_huffman_tree and generate_codes, stepwise
InitTree ==
    /\ pc = "seed"
    /\ \E n \in 0..MaxSyms : v_freq_table \in TablesOfLen(n)
    /\ hc_codes = EmptyDict /\ hc_reverse_codes = EmptyDict /\ hc_root = None
    /\ hc_calls = 0
    /\ v_text = <<>> /\ v_mode = "char"
    /\ v_encoded = <<>> /\ v_decoded = <<>>
    /\ v_raised = ""
    /\ v_heap = <<>>
    /\ v_bitstring = <<>> /\ v_packed_bytes = <<>> /\ v_padding = 0 /\ v_unpacked = <<>>
    /\ huff_file = <<>> /\ freq_json_file = <<>>

TreeFrame == UNCHANGED <<hc_calls, iovars, packvars, filevars>>

\* heap = [Node(char=char, freq=freq) for char, freq in freq_table.items()]
Seed ==
    /\ pc = "seed"
    /\ v_heap' = leaves(v_freq_table)
    /\ pc' = "heapify"
    /\ UNCHANGED <<hcvars, v_raised>> /\ TreeFrame

Heapify ==
    /\ pc = "heapify"
    /\ v_heap' = heapify(v_heap)
    /\ pc' = "loop"
    /\ UNCHANGED <<hcvars, v_raised>> /\ TreeFrame

Merge ==
    /\ pc = "loop"
    /\ Len(v_heap) > 1
    /\ v_heap' = merge(v_heap)
    /\ UNCHANGED <<pc, hcvars, v_raised>> /\ TreeFrame

\* self.root = self.build_huffman_tree(freq_table): return heap[0]
Return ==
    /\ pc = "loop"
    /\ ~(Len(v_heap) > 1)
    /\ \E top \in {heap_top(v_heap)} :
           IF IsRaised(top)
           THEN /\ pc' = "raised" /\ v_raised' = top.raised /\ UNCHANGED hc_root
           ELSE /\ pc' = "built" /\ hc_root' = top.value /\ UNCHANGED v_raised
    /\ UNCHANGED <<hc_codes, hc_reverse_codes, v_heap>> /\ TreeFrame

\* self.generate_codes(self.root)
GenerateCodes ==
    /\ pc = "built"
    /\ \E gen \in {generate_codes([codes |-> hc_codes, reverse_codes |-> hc_reverse_codes],
                                    hc_root, <<>>)} :
           /\ hc_codes' = gen.codes
           /\ hc_reverse_codes' = gen.reverse_codes
    /\ pc' = "coded"
    /\ UNCHANGED <<hc_root, v_raised, v_heap>> /\ TreeFrame

NextTree == Seed \/ Heapify \/ Merge \/ Return \/ GenerateCodes

SpecTree == InitTree /\ [][NextTree]_vars

\* ------------------------------------------------------ pack_bits and unpack_bits
InitPack ==
    /\ pc = "start"
    /\ v_bitstring \in Bitstrings
    /\ hc_codes = EmptyDict /\ hc_reverse_codes = EmptyDict /\ hc_root = None
    /\ hc_calls = 0
    /\ v_text = <<>> /\ v_mode = "char"
    /\ v_encoded = <<>> /\ v_freq_table = <<>> /\ v_decoded = <<>>
    /\ v_raised = ""
    /\ v_heap = <<>>
    /\ v_packed_bytes = <<>> /\ v_padding = 0 /\ v_unpacked = <<>>
    /\ huff_file = <<>> /\ freq_json_file = <<>>

PackFrame == UNCHANGED <<hcvars, hc_calls, iovars, v_heap, filevars>>

\* packed_bytes, padding = hc.pack_bits(bitstring)
PackBits ==
    /\ pc = "start"
    /\ \E packed \in {pack_bits(v_bitstring)} :
           IF IsRaised(packed)
           THEN /\ pc' = "raised" /\ v_raised' = packed.raised
                /\ UNCHANGED <<v_packed_bytes, v_padding>>
           ELSE /\ pc' = "packed" /\ UNCHANGED v_raised
                /\ v_packed_bytes' = packed.value[1] /\ v_padding' = packed.value[2]
    /\ UNCHANGED <<v_bitstring, v_unpacked>> /\ PackFrame

\* hc.unpack_bits(packed_bytes, padding) with the padding pack_bits returned
UnpackBits ==
    /\ pc = "packed"
    /\ v_unpacked' = unpack_bits(v_packed_bytes, v_padding)
    /\ pc' = "unpacked"
    /\ UNCHANGED <<v_bitstring, v_packed_bytes, v_padding, v_raised>> /\ PackFrame

\* hc.unpack_bits(packed_bytes, p) with a padding byte p as a .huff file may hold
UnpackBitsWith ==
    \E p \in 0..MaxPadding :
        /\ pc = "packed"
        /\ v_padding' = p
        /\ v_unpacked' = unpack_bits(v_packed_bytes, p)
        /\ pc' = "unpacked_with"
        /\ UNCHANGED <<v_bitstring, v_packed_bytes, v_raised>> /\ PackFrame

NextPack == PackBits \/ UnpackBits \/ UnpackBitsWith

SpecPack == InitPack /\ [][NextPack]_vars

\* ====================================================================== claims
IsPrefix(s, t) == Len(s) <= Len(t) /\ SubSeq(t, 1, Len(s)) = s

\* The depth of the leaf holding char below node, -1 when there is none.
RECURSIVE leaf_depth(_, _)
leaf_depth(node, char) ==
    IF node = None THEN -1
    ELSE IF node.char # NoChar THEN (IF node.char = char THEN 0 ELSE -1)
    ELSE LET l == leaf_depth(node.left, char)
             r == leaf_depth(node.right, char)
         IN  IF l >= 0 THEN l + 1 ELSE IF r >= 0 THEN r + 1 ELSE -1

\* C1: in char mode, decode of what encode returned for a non-empty text is the text.
CharRoundTrip ==
    (pc = "decoded" /\ v_mode = "char" /\ v_text # <<>>) => v_decoded = v_text

\* C2: pack_bits raises for no bitstring, and unpack_bits of the bytes and padding it
\* returned is the bitstring packed.
PackRoundTrip ==
    /\ pc # "raised"
    /\ pc = "unpacked" => v_unpacked = v_bitstring

\* C3: the padding pack_bits returns is in 0..7 and is the number of zero bits
\* appended: the bytes hold the bitstring's bits and that many more.
PaddingInRange ==
    pc = "packed" =>
        /\ v_padding \in 0..7
        /\ 8 * Len(v_packed_bytes) = Len(v_bitstring) + v_padding

\* C4: for a text of n >= 1 occurrences of one symbol the tree is a single leaf, the
\* symbol's code is "0", the bitstring is n "0" bits and decode gives the text back.
DegenerateAlphabet ==
    (pc = "decoded" /\ v_mode = "char" /\ Len(v_freq_table) = 1) =>
        /\ hc_root = Node(v_freq_table[1][1], Len(v_text), None, None)
        /\ hc_codes = << <<v_freq_table[1][1], <<"0">>>> >>
        /\ v_encoded = Zeros(Len(v_text))
        /\ Len(v_decoded) = Len(v_encoded)
        /\ v_decoded = v_text

\* C5: the codes generated for a non-empty frequency table cover its symbols, are
\* non-empty, and none is a prefix of another symbol's code.
PrefixFree ==
    (pc = "coded" /\ v_freq_table # <<>>) =>
        /\ ItemKeys(hc_codes) = ItemKeys(v_freq_table)
        /\ \A i, j \in 1..Len(hc_codes) :
               /\ hc_codes[i][2] # <<>>
               /\ i # j => ~IsPrefix(hc_codes[i][2], hc_codes[j][2])

\* Codes of several symbols, of different lengths, have been generated.
PrefixFreeWitness ==
    /\ pc = "coded"
    /\ Len(hc_codes) >= 3
    /\ \E i, j \in 1..Len(hc_codes) : Len(hc_codes[i][2]) < Len(hc_codes[j][2])

\* C6: a symbol with a larger count than another has a code no longer than the other's.
OptimalityOrdering ==
    pc = "coded" =>
        \A i, j \in 1..Len(v_freq_table) :
            v_freq_table[i][2] > v_freq_table[j][2] =>
                Len(ItemGet(hc_codes, v_freq_table[i][1]))
                    <= Len(ItemGet(hc_codes, v_freq_table[j][1]))

\* A more frequent symbol got a strictly shorter code, and two symbols of equal
\* count were in the table.
OptimalityWitness ==
    /\ pc = "coded"
    /\ \E i, j \in 1..Len(v_freq_table) :
           /\ v_freq_table[i][2] > v_freq_table[j][2]
           /\ Len(ItemGet(hc_codes, v_freq_table[i][1]))
                  < Len(ItemGet(hc_codes, v_freq_table[j][1]))
    /\ \E i, j \in 1..Len(v_freq_table) :
           i # j /\ v_freq_table[i][2] = v_freq_table[j][2]

\* C7: for a text with no tokens encode raises nothing and returns the empty
\* bitstring and the empty table, and decode of that pair returns the empty string.
EmptyInputNoError ==
    (pc \in {"encoded", "decoded", "raised"} /\ tokenize(v_text, v_mode) = <<>>) =>
        /\ v_raised = ""
        /\ v_encoded = <<>> /\ v_freq_table = <<>>
        /\ pc = "decoded" => v_decoded = <<>>

InvalidPaddingFatal ==
    (pc = "unpacked_with"
     /\ (v_padding \notin 0..7 \/ v_padding > 8 * Len(v_packed_bytes)))
        => v_raised # ""

\* C10: after a call of encode or decode the instance's codes are those of the call's
\* frequency table, symbol for symbol, and reverse_codes is their inverse.
CodeTableFresh ==
    pc \in {"encoded", "decoded"} =>
        /\ ItemKeys(hc_codes) = ItemKeys(v_freq_table)
        /\ ItemKeys(hc_reverse_codes) = {hc_codes[i][2] : i \in 1..Len(hc_codes)}

====
